---- MODULE Spec2Model ----
(***************************************************************************)
(* Model of the smser SMS-to-MQTT gateway (src/SMSReader.py, src/main.py,  *)
(* src/MQTTPublisher.py, src/RedisClient.py).                              *)
(*                                                                         *)
(* Strings are sequences of one-character strings, so that the parser's    *)
(* split/strip calls act on the characters the modem sends.                *)
(***************************************************************************)
EXTENDS Integers, Sequences, FiniteSets, TLC

VARIABLES
    \* the modem, the queue store and the broker
    modem,       \* storage index -> <<>> or <<record>>, record = [date, body]
    arrived,     \* number of SMS the modem has received
    queue,       \* the Redis list sms_queue: serialized messages, oldest first
    redis_up,    \* the queue store answers
    broker_up,   \* the MQTT broker answers
    faults,      \* serial I/O errors so far
    \* SMSReader and read_sms_thread
    serial_conn, \* SMSReader._serial_conn: "None", "open" or "closed"
    init_done,   \* the open connection has had AT+CMGF=1 completed
    ing_pc,      \* where read_sms_thread is
    response,    \* the reply read to AT+CMGL in this cycle
    messages,    \* the list _parse_sms_message builds and read_sms returns
    ing_i,       \* position of the delete loop under way in messages
    delete_calls,\* indexes delete_sms was called with in this cycle
    \* mqtt_publish_thread
    del_pc,      \* where mqtt_publish_thread is
    item,        \* <<payload>> popped and not yet published, or <<>>
    \* MQTTPublisher and the client's network thread
    conn,        \* "up", "stale" (link lost, not yet noticed) or "down"
    net_pc,      \* on_disconnect: "idle", "reconnect" or "wait"
    \* history
    deleted,     \* bodies of the records AT+CMGD removed from the modem
    appended,    \* bodies of the messages ever appended to the queue
    n_appended,  \* number of entries ever appended to the queue
    n_passed,    \* number of entries popped and passed to publish
    calls,       \* publish calls: [connected, reconnecting] when publish
                 \* returned, and [sent, result]
    published,   \* [topic, payload] handed to the connected client
    lost,        \* payloads popped whose publish returned False
    app_seq,     \* the payloads appended to the queue, in order
    att_seq,     \* the payloads passed to publish, in order
    del_err,     \* the delivery loop's last blpop failed
    \* main
    main_pc,     \* where main is
    ports,       \* the serial ports comports() lists: how each one behaves
    probe_i,     \* find_port: position in ports
    open_ports,  \* positions of the ports check_at_command left open
    at_port,     \* serial_port: <<>> (None), <<0>> (given) or <<position>>
    started,     \* both threads were started
    \* ParseSpec
    p_pc,        \* "in" before _parse_sms_message ran, "out" after
    p_lines,     \* the lines handed to _parse_sms_message
    p_out        \* [messages, deletes] it produced

(***************************************************************************)
(* Bounds of the model.                                                    *)
(***************************************************************************)
MaxLines == 4

MaxArrivals == 2

MaxFaults == 1

MaxPorts == 3

(***************************************************************************)
(* Python str helpers.                                                     *)
(***************************************************************************)
WS == {" ", "\t", "\n", "\r"}

DigitChars == <<"0", "1", "2", "3", "4", "5", "6", "7", "8", "9">>

isdigit(c) == \E i \in 1..10 : DigitChars[i] = c

DigitVal(c) == (CHOOSE i \in 1..10 : DigitChars[i] = c) - 1

RECURSIVE lstrip(_, _)
lstrip(s, cs) ==
    IF s # <<>> /\ Head(s) \in cs THEN lstrip(Tail(s), cs) ELSE s

RECURSIVE rstrip(_, _)
rstrip(s, cs) ==
    IF s # <<>> /\ s[Len(s)] \in cs
    THEN rstrip(SubSeq(s, 1, Len(s) - 1), cs)
    ELSE s

\* str.strip(): leading and trailing whitespace removed
strip(s) == lstrip(rstrip(s, WS), WS)

\* str.strip('"')
strip_quote(s) == lstrip(rstrip(s, {"\""}), {"\""})

startswith(s, p) == Len(s) >= Len(p) /\ SubSeq(s, 1, Len(p)) = p

\* str.split(sep) for a one-character separator: always at least one part
RECURSIVE split(_, _)
split(s, sep) ==
    IF \E i \in 1..Len(s) : s[i] = sep
    THEN LET i == CHOOSE k \in 1..Len(s) :
                      s[k] = sep /\ \A j \in 1..(k - 1) : s[j] # sep
         IN  <<SubSeq(s, 1, i - 1)>> \o split(SubSeq(s, i + 1, Len(s)), sep)
    ELSE <<s>>

\* str.splitlines(): breaks at \n, \r and \r\n; no empty last line
RECURSIVE splitlines(_)
splitlines(s) ==
    IF s = <<>> THEN <<>>
    ELSE IF \E i \in 1..Len(s) : s[i] \in {"\n", "\r"}
    THEN LET i == CHOOSE k \in 1..Len(s) :
                      s[k] \in {"\n", "\r"}
                      /\ \A j \in 1..(k - 1) : s[j] \notin {"\n", "\r"}
             n == IF s[i] = "\r" /\ i < Len(s) /\ s[i + 1] = "\n"
                  THEN i + 2 ELSE i + 1
         IN  <<SubSeq(s, 1, i - 1)>> \o splitlines(SubSeq(s, n, Len(s)))
    ELSE <<s>>

\* ''.join(filter(str.isdigit, s))
RECURSIVE digits_only(_)
digits_only(s) ==
    IF s = <<>> THEN <<>>
    ELSE (IF isdigit(Head(s)) THEN <<Head(s)>> ELSE <<>>)
         \o digits_only(Tail(s))

\* str(n) for n >= 0
RECURSIVE int_to_str(_)
int_to_str(n) ==
    IF n < 10 THEN <<DigitChars[n + 1]>>
    ELSE int_to_str(n \div 10) \o <<DigitChars[(n % 10) + 1]>>

(***************************************************************************)
(* datetime.strptime(date, "%y/%m/%d %H:%M:%S") and int(dt.timestamp()).   *)
(* A field is one or two digits (%y: exactly two); anything else, a field  *)
(* out of range or a day the month does not have is a ValueError.  The     *)
(* timestamp is computed for a host whose local time is UTC.               *)
(***************************************************************************)
ValueError == [error |-> "ValueError"]

IsNumber(s, lo, hi) ==
    /\ Len(s) >= lo
    /\ Len(s) <= hi
    /\ \A i \in 1..Len(s) : isdigit(s[i])

NumberOf(s) ==
    IF Len(s) = 1 THEN DigitVal(s[1])
    ELSE 10 * DigitVal(s[1]) + DigitVal(s[2])

IsLeap(y) == (y % 4 = 0 /\ y % 100 # 0) \/ y % 400 = 0

DaysInMonth(y, m) ==
    IF m = 2 THEN (IF IsLeap(y) THEN 29 ELSE 28)
    ELSE IF m \in {4, 6, 9, 11} THEN 30 ELSE 31

strptime(date) ==
    LET halves == split(date, " ")
    IN  IF Len(halves) # 2 THEN ValueError
        ELSE LET d == split(halves[1], "/")
                 t == split(halves[2], ":")
             IN  IF \/ Len(d) # 3
                    \/ Len(t) # 3
                    \/ ~IsNumber(d[1], 2, 2)
                    \/ ~IsNumber(d[2], 1, 2)
                    \/ ~IsNumber(d[3], 1, 2)
                    \/ ~IsNumber(t[1], 1, 2)
                    \/ ~IsNumber(t[2], 1, 2)
                    \/ ~IsNumber(t[3], 1, 2)
                 THEN ValueError
                 ELSE LET yy == NumberOf(d[1])
                          y  == IF yy <= 68 THEN 2000 + yy ELSE 1900 + yy
                          m  == NumberOf(d[2])
                          dd == NumberOf(d[3])
                          H  == NumberOf(t[1])
                          M  == NumberOf(t[2])
                          S  == NumberOf(t[3])
                      IN  IF /\ m \in 1..12
                             /\ dd \in 1..DaysInMonth(y, m)
                             /\ H \in 0..23
                             /\ M \in 0..59
                             /\ S \in 0..59
                          THEN [year |-> y, month |-> m, day |-> dd,
                                hour |-> H, minute |-> M, second |-> S]
                          ELSE ValueError

\* days from 1970-01-01 to the civil date
DaysFromCivil(y, m, d) ==
    LET y2  == IF m <= 2 THEN y - 1 ELSE y
        era == y2 \div 400
        yoe == y2 - era * 400
        mp  == IF m > 2 THEN m - 3 ELSE m + 9
        doy == (153 * mp + 2) \div 5 + d - 1
        doe == yoe * 365 + yoe \div 4 - yoe \div 100 + doy
    IN  era * 146097 + doe - 719468

timestamp(dt) ==
    DaysFromCivil(dt.year, dt.month, dt.day) * 86400
    + dt.hour * 3600 + dt.minute * 60 + dt.second

(***************************************************************************)
(* SMSReader._parse_sms_message (src/SMSReader.py:126-181).                *)
(*                                                                         *)
(* current_msg is None or a dict: a sequence of zero or one message.  A    *)
(* dict appended to messages is the same object as current_msg until       *)
(* current_msg is assigned again; alias holds the positions of messages    *)
(* that are that object, so that a later "body +=" changes them too.       *)
(***************************************************************************)
STR_CMGL == <<"+", "C", "M", "G", "L", ":">>

STR_OK == <<"O", "K">>

STR_ERROR == <<"E", "R", "R", "O", "R">>

REC_UNREAD == <<"R", "E", "C", " ", "U", "N", "R", "E", "A", "D">>

\* parse_header without the strip('"') of the sender field
parse_header_keeps_quotes(line) ==
    LET parts == split(line, ",")
    IN  IF Len(parts) >= 6
        THEN LET date == strip_quote(strip(parts[5])) \o <<" ">>
                         \o split(strip(parts[6]), "+")[1]
                 dt   == strptime(date)
             IN  IF dt = ValueError
                 THEN [kind |-> "error"]
                 ELSE [kind |-> "new",
                       msg  |-> [index     |-> strip(split(parts[1], ":")[2]),
                                 status    |-> strip_quote(strip(parts[2])),
                                 sender    |-> strip(parts[3]),
                                 timestamp |-> timestamp(dt),
                                 body      |-> <<>>]]
        ELSE [kind |-> "skip"]

\* lines 147-169: the header's outcome: a new current_msg ("new"), the
\* except branch that sets current_msg to None ("error"), or neither
\* ("skip": fewer than 6 parts, the if has no else)
parse_header(line) ==
    LET parts == split(line, ",")
    IN  IF Len(parts) >= 6
        THEN LET index  == strip(split(parts[1], ":")[2])
                 status == strip_quote(strip(parts[2]))
                 sender == strip_quote(strip(parts[3]))
                 date   == strip_quote(strip(parts[5])) \o <<" ">>
                           \o split(strip(parts[6]), "+")[1]
                 dt     == strptime(date)
             IN  IF dt = ValueError
                 THEN [kind |-> "error"]
                 ELSE [kind |-> "new",
                       msg  |-> [index     |-> index,
                                 status    |-> status,
                                 sender    |-> sender,
                                 timestamp |-> timestamp(dt),
                                 body      |-> <<>>]]
        ELSE [kind |-> "skip"]

\* lines 143-144: the flush at a header (the status test is commented out)
flush_at_header(st) ==
    IF st.current # <<>> /\ st.current[1].body # <<>>
    THEN [st EXCEPT !.messages = Append(@, st.current[1]),
                    !.alias = @ \cup {Len(st.messages) + 1}]
    ELSE st

\* lines 171-172: current_msg['body'] += line + '\n'
append_body(st, line) ==
    LET body == st.current[1].body \o line \o <<"\n">>
    IN  [st EXCEPT
            !.current = <<[st.current[1] EXCEPT !.body = body]>>,
            !.messages = [i \in 1..Len(st.messages) |->
                            IF i \in st.alias
                            THEN [st.messages[i] EXCEPT !.body = body]
                            ELSE st.messages[i]]]

\* lines 136-172: one iteration of the loop over lines
parse_line(st, raw) ==
    LET line == strip(raw)
    IN  IF line = <<>> THEN st
        ELSE IF startswith(line, STR_CMGL)
        THEN LET flushed == flush_at_header(st)
                 h == parse_header(line)
             IN  IF h.kind = "new"
                 THEN [flushed EXCEPT !.current = <<h.msg>>, !.alias = {}]
                 ELSE IF h.kind = "error"
                 THEN [flushed EXCEPT !.current = <<>>, !.alias = {}]
                 ELSE flushed
        ELSE IF /\ st.current # <<>>
                /\ ~startswith(line, STR_OK)
                /\ ~startswith(line, STR_ERROR)
        THEN append_body(st, line)
        ELSE st

RECURSIVE parse_lines(_, _)
parse_lines(st, lines) ==
    IF lines = <<>> THEN st
    ELSE parse_lines(parse_line(st, Head(lines)), Tail(lines))

\* lines 175-177: the flush after the last line
flush_last(st) ==
    IF /\ st.current # <<>>
       /\ st.current[1].body # <<>>
       /\ st.current[1].status = REC_UNREAD
    THEN Append(st.messages, st.current[1])
    ELSE st.messages

\* the list returned, and the indexes delete_sms is called with (lines
\* 179-180), in call order
parse_sms_message(lines) ==
    LET st == parse_lines([messages |-> <<>>, current |-> <<>>, alias |-> {}],
                          lines)
        msgs == flush_last(st)
    IN  [messages |-> msgs,
         deletes  |-> [i \in 1..Len(msgs) |-> msgs[i].index]]

(***************************************************************************)
(* The modem's side of AT+CMGL: the text of a list reply.                  *)
(***************************************************************************)
STR_SENDER == <<"+", "1", "5", "5", "5", "0", "0", "0", "1", "2", "3", "4">>

STR_DATE == <<"2", "4", "/", "0", "1", "/", "1", "5">>

STR_TIME == <<"1", "0", ":", "3", "0", ":", "0", "0", "+", "0", "0">>

STR_READ == <<"R", "E", "C", " ", "R", "E", "A", "D">>

\* "yy/MM/dd,hh:mm:ss+zz": one quoted field holding a comma
DateStd == <<"\"">> \o STR_DATE \o <<",">> \o STR_TIME \o <<"\"">>

\* "yy/MM/dd","hh:mm:ss+zz": date and time quoted separately
DateSplit ==
    <<"\"">> \o STR_DATE \o <<"\"", ",", "\"">> \o STR_TIME \o <<"\"">>

\* a date no calendar has (month 13)
DateBad ==
    <<"\"", "2", "4", "/", "1", "3", "/", "1", "5", ",">> \o STR_TIME
    \o <<"\"">>

\* the date and time fields left empty
DateAbsent == <<",">>

\* +CMGL: <index>,"<stat>","<oa>",,<date fields>
HeaderLine(index, status, datefields) ==
    STR_CMGL \o <<" ", DigitChars[index + 1], ",", "\"">> \o status
    \o <<"\"", ",", "\"">> \o STR_SENDER \o <<"\"", ",", ",">> \o datefields

\* a header cut after the sender: 3 comma-separated parts
ShortHeader(index) ==
    STR_CMGL \o <<" ", DigitChars[index + 1], ",", "\"">> \o REC_UNREAD
    \o <<"\"", ",", "\"">> \o STR_SENDER \o <<"\"">>

STR_HELLO == <<"H", "e", "l", "l", "o">>

STR_BYE == <<"B", "y", "e">>

(***************************************************************************)
(* json.dumps / json.loads.  A string is written between quotes with its   *)
(* quotes, backslashes and control characters escaped; a message dict is   *)
(* kept as its fields, each in its JSON text.                              *)
(***************************************************************************)
EscapeOf(c) ==
    IF c = "\n" THEN <<"\\", "n">>
    ELSE IF c = "\r" THEN <<"\\", "r">>
    ELSE IF c = "\t" THEN <<"\\", "t">>
    ELSE IF c = "\"" THEN <<"\\", "\"">>
    ELSE IF c = "\\" THEN <<"\\", "\\">>
    ELSE <<c>>

UnescapeOf(c) ==
    IF c = "n" THEN "\n"
    ELSE IF c = "r" THEN "\r"
    ELSE IF c = "t" THEN "\t"
    ELSE c

RECURSIVE json_escape(_)
json_escape(s) ==
    IF s = <<>> THEN <<>> ELSE EscapeOf(Head(s)) \o json_escape(Tail(s))

json_dumps_str(s) == <<"\"">> \o json_escape(s) \o <<"\"">>

\* the string read up to its closing quote, escapes decoded
RECURSIVE json_string(_)
json_string(s) ==
    IF s = <<>> \/ Head(s) = "\"" THEN <<>>
    ELSE IF Head(s) = "\\"
    THEN <<UnescapeOf(Head(Tail(s)))>> \o json_string(Tail(Tail(s)))
    ELSE <<Head(s)>> \o json_string(Tail(s))

json_loads_str(t) == json_string(Tail(t))

\* int(s), most significant digit first
RECURSIVE str_to_int_from(_, _)
str_to_int_from(s, n) ==
    IF s = <<>> THEN n
    ELSE str_to_int_from(Tail(s), 10 * n + DigitVal(Head(s)))

str_to_int(s) == str_to_int_from(s, 0)

\* main.py:49  json.dumps(msg)
json_dumps(msg) ==
    [index     |-> json_dumps_str(msg.index),
     status    |-> json_dumps_str(msg.status),
     sender    |-> json_dumps_str(msg.sender),
     timestamp |-> int_to_str(msg.timestamp),
     body      |-> json_dumps_str(msg.body)]

\* main.py:81  json.loads(payload)
json_loads(payload) ==
    [index     |-> json_loads_str(payload.index),
     status    |-> json_loads_str(payload.status),
     sender    |-> json_loads_str(payload.sender),
     timestamp |-> str_to_int(payload.timestamp),
     body      |-> json_loads_str(payload.body)]

(***************************************************************************)
(* The modem: storage, the reply to AT+CMGL="REC UNREAD", AT+CMGD.         *)
(***************************************************************************)
\* the storage indexes the modem uses, in the order it lists them
Slots == <<1, 3>>

SlotSet == {Slots[k] : k \in 1..Len(Slots)}

\* the text of the k-th SMS received
BodyOf(k) ==
    IF k = 1 THEN STR_HELLO
    ELSE IF k = 2 THEN STR_BYE
    ELSE <<"S", "M", "S", DigitChars[k + 1]>>

DateFields(record) == IF record.date = "std" THEN DateStd ELSE DateSplit

RecordLines(store, i) ==
    IF store[i] = <<>> THEN <<>>
    ELSE <<HeaderLine(i, REC_UNREAD, DateFields(store[i][1])),
           store[i][1].body>>

RECURSIVE StoredLines(_, _)
StoredLines(store, k) ==
    IF k > Len(Slots) THEN <<>>
    ELSE RecordLines(store, Slots[k]) \o StoredLines(store, k + 1)

RECURSIVE JoinLines(_)
JoinLines(lines) ==
    IF lines = <<>> THEN <<>>
    ELSE Head(lines) \o <<"\r", "\n">> \o JoinLines(Tail(lines))

\* every stored record, an empty line, OK
ListReply(store) == JoinLines(StoredLines(store, 1) \o <<<<>>, STR_OK>>)

\* the storage after AT+CMGD=<index>
Cmgd(store, index) ==
    [i \in SlotSet |->
        IF <<DigitChars[i + 1]>> = index THEN <<>> ELSE store[i]]

\* the bodies AT+CMGD=<index> removes
Removed(store, index) ==
    { store[i][1].body :
        i \in {j \in SlotSet :
                   <<DigitChars[j + 1]>> = index /\ store[j] # <<>>} }

NoOutput == [messages |-> <<>>, deletes |-> <<>>]

(***************************************************************************)
(* SMSReader: get_connection, _send_command, read_sms, delete_sms.         *)
(***************************************************************************)
\* src/SMSReader.py:62-103: how one _send_command can end and what it
\* leaves in _serial_conn: the command is answered (the connection opened
\* and initialized first when it was not open); an I/O error inside the
\* with block (closed, set to None); serial.Serial() raises (left as it
\* was); _init_modem raises (left open)
SendOutcomes ==
    {[ok |-> TRUE, conn |-> "open"]}
    \cup (IF faults < MaxFaults
          THEN {[ok |-> FALSE, conn |-> "None"]}
               \cup (IF serial_conn # "open"
                     THEN {[ok |-> FALSE, conn |-> serial_conn],
                           [ok |-> FALSE, conn |-> "open"]}
                     ELSE {})
          ELSE {})

\* src/SMSReader.py:69-71: whether the connection that outcome o leaves has
\* had _init_modem completed: a connection found open is not initialized
\* again, one opened now is, unless _init_modem raised
init_after(o) ==
    /\ o.conn = "open"
    /\ o.ok
    /\ serial_conn = "open" => init_done

\* src/SMSReader.py:183-195: what read_sms returns for the outcome o of its
\* command and the reply read
read_sms(o, reply) ==
    IF o.ok THEN parse_sms_message(splitlines(reply)) ELSE NoOutput

\* src/SMSReader.py:198-209: delete_sms(index)
delete_sms(index) ==
    \E o \in SendOutcomes :
        /\ serial_conn' = o.conn
        /\ init_done' = init_after(o)
        /\ faults' = IF o.ok THEN faults ELSE faults + 1
        /\ delete_calls' = delete_calls \cup {index}
        /\ modem' = IF o.ok THEN Cmgd(modem, index) ELSE modem
        /\ deleted' = IF o.ok THEN deleted \cup Removed(modem, index)
                      ELSE deleted

(***************************************************************************)
(* MQTTPublisher.                                                          *)
(***************************************************************************)
STR_MODEM == <<"m", "o", "d", "e", "m">>

\* paho's Client.publish: the message goes out on the socket the client
\* holds; without one the result code is MQTT_ERR_NO_CONN
client_publish(c) ==
    IF c = "down" THEN "MQTT_ERR_NO_CONN" ELSE "MQTT_ERR_SUCCESS"

\* a publish that reports success whatever the result code
publish_result_always_true(rc) == TRUE

\* src/MQTTPublisher.py:68-73: the value publish returns for a result code
publish_result(rc) == rc = "MQTT_ERR_SUCCESS"

\* a publish whose return value does not depend on the client's result
publish_returns_true(message, c) ==
    [topic   |-> STR_MODEM \o <<"/">> \o digits_only(message.sender)
                 \o <<"/">> \o int_to_str(message.timestamp),
     payload |-> json_dumps_str(message.body),
     sent    |-> client_publish(c) = "MQTT_ERR_SUCCESS",
     result  |-> TRUE]

\* src/MQTTPublisher.py:57-76: publish(message) with the client in state c
publish(message, c) ==
    LET payload == json_dumps_str(message.body)
        sender  == digits_only(message.sender)
        topic   == STR_MODEM \o <<"/">> \o sender \o <<"/">>
                   \o int_to_str(message.timestamp)
        rc      == client_publish(c)
    IN  [topic   |-> topic,
         payload |-> payload,
         sent    |-> rc = "MQTT_ERR_SUCCESS",
         result  |-> publish_result(rc)]

\* an on_disconnect that returns after its first failed attempt
on_disconnect_gives_up(pc, broker) ==
    IF pc = "reconnect"
    THEN (IF broker THEN [pc |-> "idle", conn |-> "up"]
          ELSE [pc |-> "idle", conn |-> "down"])
    ELSE [pc |-> "reconnect", conn |-> "down"]

\* src/MQTTPublisher.py:48-55: one pass of on_disconnect's loop, at pc
\* "reconnect" (client.reconnect()) or "wait" (time.sleep(5))
on_disconnect_step(pc, broker) ==
    IF pc = "reconnect"
    THEN (IF broker THEN [pc |-> "idle", conn |-> "up"]
          ELSE [pc |-> "wait", conn |-> "down"])
    ELSE [pc |-> "reconnect", conn |-> "down"]


(***************************************************************************)
(* State after main has built the SMSReader and the MQTTPublisher (whose   *)
(* constructor connected) and started both threads.                        *)
(***************************************************************************)
pvars == <<p_pc, p_lines, p_out>>

sysvars ==
    <<modem, arrived, queue, redis_up, broker_up, faults, serial_conn,
      ing_pc, response, messages, ing_i, delete_calls, del_pc, item, conn,
      net_pc, deleted, appended, n_appended, n_passed, calls, published,
      lost, app_seq, att_seq, del_err, init_done>>

mvars == <<main_pc, ports, probe_i, open_ports, at_port, started>>

vars == <<sysvars, pvars, mvars>>

SysInit ==
    /\ modem = [i \in SlotSet |-> <<>>]
    /\ arrived = 0
    /\ queue = <<>>
    /\ redis_up = TRUE
    /\ broker_up = TRUE
    /\ faults = 0
    /\ serial_conn = "None"
    /\ init_done = FALSE
    /\ ing_pc = "read"
    /\ response = <<>>
    /\ messages = <<>>
    /\ ing_i = 1
    /\ delete_calls = {}
    /\ del_pc = "pop"
    /\ item = <<>>
    /\ conn = "up"
    /\ net_pc = "idle"
    /\ deleted = {}
    /\ appended = {}
    /\ n_appended = 0
    /\ n_passed = 0
    /\ calls = {}
    /\ published = {}
    /\ lost = {}
    /\ app_seq = <<>>
    /\ att_seq = <<>>
    /\ del_err = FALSE

\* main.py:138-161: main was given its serial port, has built both objects,
\* started both threads and waits in its loop
MainRunning ==
    /\ main_pc = "running"
    /\ ports = <<>>
    /\ probe_i = 1
    /\ open_ports = {}
    /\ at_port = <<0>>
    /\ started = TRUE

Init ==
    /\ SysInit
    /\ MainRunning
    /\ p_pc = "out"
    /\ p_lines = <<>>
    /\ p_out = NoOutput

(***************************************************************************)
(* The environment: SMS arrive, the queue store and the broker go down and *)
(* come back.                                                              *)
(***************************************************************************)
\* the modem stores a received SMS at a free index
Arrive ==
    /\ arrived < MaxArrivals
    /\ \E i \in SlotSet, d \in {"std", "split"} :
          /\ modem[i] = <<>>
          /\ modem' = [modem EXCEPT
                          ![i] = <<[date |-> d, body |-> BodyOf(arrived + 1)]>>]
    /\ arrived' = arrived + 1
    /\ UNCHANGED <<queue, redis_up, broker_up, faults, serial_conn, ing_pc,
                   response, messages, ing_i, delete_calls, del_pc, item,
                   conn, net_pc, deleted, appended, n_appended, n_passed,
                   calls, published, lost, pvars, app_seq, att_seq, del_err,
                   mvars, init_done>>

RedisDown ==
    /\ redis_up
    /\ redis_up' = FALSE
    /\ UNCHANGED <<modem, arrived, queue, broker_up, faults, serial_conn,
                   ing_pc, response, messages, ing_i, delete_calls, del_pc,
                   item, conn, net_pc, deleted, appended, n_appended,
                   n_passed, calls, published, lost, pvars, app_seq, att_seq,
                   del_err, mvars, init_done>>

RedisUp ==
    /\ ~redis_up
    /\ redis_up' = TRUE
    /\ UNCHANGED <<modem, arrived, queue, broker_up, faults, serial_conn,
                   ing_pc, response, messages, ing_i, delete_calls, del_pc,
                   item, conn, net_pc, deleted, appended, n_appended,
                   n_passed, calls, published, lost, pvars, app_seq, att_seq,
                   del_err, mvars, init_done>>

\* the broker goes away: a connected client holds a dead link
BrokerDown ==
    /\ broker_up
    /\ broker_up' = FALSE
    /\ conn' = IF conn = "up" THEN "stale" ELSE conn
    /\ UNCHANGED <<modem, arrived, queue, redis_up, faults, serial_conn,
                   ing_pc, response, messages, ing_i, delete_calls, del_pc,
                   item, net_pc, deleted, appended, n_appended, n_passed,
                   calls, published, lost, pvars, app_seq, att_seq, del_err,
                   mvars, init_done>>

BrokerUp ==
    /\ ~broker_up
    /\ broker_up' = TRUE
    /\ UNCHANGED <<modem, arrived, queue, redis_up, faults, serial_conn,
                   ing_pc, response, messages, ing_i, delete_calls, del_pc,
                   item, conn, net_pc, deleted, appended, n_appended,
                   n_passed, calls, published, lost, pvars, app_seq, att_seq,
                   del_err, mvars, init_done>>

(***************************************************************************)
(* read_sms_thread (src/main.py:29-62).                                    *)
(***************************************************************************)
\* a cycle without the `if messages:` of main.py:45
ReadSms_always_enqueues ==
    /\ ing_pc = "read"
    /\ \E o \in SendOutcomes, reply \in {ListReply(modem), <<>>} :
          LET out == read_sms(o, reply)
          IN  /\ serial_conn' = o.conn
              /\ init_done' = init_after(o)
              /\ faults' = IF o.ok THEN faults ELSE faults + 1
              /\ response' = IF o.ok THEN reply ELSE <<>>
              /\ messages' = out.messages
              /\ ing_pc' = IF out.messages # <<>> THEN "parse_delete"
                           ELSE "enqueue"
    /\ ing_i' = 1
    /\ delete_calls' = {}
    /\ UNCHANGED <<modem, arrived, queue, redis_up, broker_up, del_pc, item,
                   conn, net_pc, deleted, appended, n_appended, n_passed,
                   calls, published, lost, pvars, app_seq, att_seq, del_err,
                   mvars>>

\* main.py:43 up to the parse: AT+CMGL="REC UNREAD" is sent and the reply
\* read (the whole reply, or nothing yet after the 0.5 s wait), split into
\* lines and parsed; the deletes of SMSReader.py:179-180 follow
ReadSms ==
    /\ ing_pc = "read"
    /\ \E o \in SendOutcomes, reply \in {ListReply(modem), <<>>} :
          LET out == read_sms(o, reply)
          IN  /\ serial_conn' = o.conn
              /\ init_done' = init_after(o)
              /\ faults' = IF o.ok THEN faults ELSE faults + 1
              /\ response' = IF o.ok THEN reply ELSE <<>>
              /\ messages' = out.messages
              /\ ing_pc' = IF out.messages # <<>> THEN "parse_delete"
                           ELSE "sleep"
    /\ ing_i' = 1
    /\ delete_calls' = {}
    /\ UNCHANGED <<modem, arrived, queue, redis_up, broker_up, del_pc, item,
                   conn, net_pc, deleted, appended, n_appended, n_passed,
                   calls, published, lost, pvars, app_seq, att_seq, del_err,
                   mvars>>

\* a _parse_sms_message that returns its list without the delete loop
ParseDelete_without_deletes ==
    /\ ing_pc = "parse_delete"
    /\ ing_pc' = "enqueue"
    /\ ing_i' = 1
    /\ UNCHANGED <<modem, faults, serial_conn, delete_calls, deleted, arrived,
                   queue, redis_up, broker_up, response, messages, del_pc,
                   item, conn, net_pc, appended, n_appended, n_passed, calls,
                   published, lost, pvars, app_seq, att_seq, del_err, mvars,
                   init_done>>

\* SMSReader.py:179-181: delete_sms for the next message of the list, then
\* (after the last) read_sms returns the list
ParseDelete ==
    /\ ing_pc = "parse_delete"
    /\ delete_sms(messages[ing_i].index)
    /\ IF ing_i = Len(messages)
       THEN ing_pc' = "enqueue" /\ ing_i' = 1
       ELSE ing_pc' = ing_pc /\ ing_i' = ing_i + 1
    /\ UNCHANGED <<arrived, queue, redis_up, broker_up, response, messages,
                   del_pc, item, conn, net_pc, appended, n_appended, n_passed,
                   calls, published, lost, pvars, app_seq, att_seq, del_err,
                   mvars>>

\* main.py:45-50: the batch is pushed in one pipeline (MULTI/EXEC)
Enqueue ==
    /\ ing_pc = "enqueue"
    /\ redis_up
    /\ queue' = queue \o [i \in 1..Len(messages) |-> json_dumps(messages[i])]
    /\ app_seq' =
           app_seq \o [i \in 1..Len(messages) |-> json_dumps(messages[i])]
    /\ appended' = appended \cup {messages[i].body : i \in 1..Len(messages)}
    /\ n_appended' = n_appended + Len(messages)
    /\ ing_pc' = "thread_delete"
    /\ ing_i' = 1
    /\ UNCHANGED <<n_passed, modem, arrived, redis_up, broker_up, faults,
                   serial_conn, response, messages, delete_calls, del_pc,
                   item, conn, net_pc, deleted, calls, published, lost, pvars,
                   att_seq, del_err, mvars, init_done>>

\* main.py:50, 60-62: execute raises, the except sleeps 5 s
EnqueueFail ==
    /\ ing_pc = "enqueue"
    /\ ~redis_up
    /\ ing_pc' = "backoff"
    /\ UNCHANGED <<modem, arrived, queue, redis_up, broker_up, faults,
                   serial_conn, response, messages, ing_i, delete_calls,
                   del_pc, item, conn, net_pc, deleted, appended, n_appended,
                   n_passed, calls, published, lost, pvars, app_seq, att_seq,
                   del_err, mvars, init_done>>

\* main.py:53-54: delete_sms for each message of the batch
ThreadDelete ==
    /\ ing_pc = "thread_delete"
    /\ delete_sms(messages[ing_i].index)
    /\ IF ing_i = Len(messages)
       THEN ing_pc' = "sleep" /\ ing_i' = 1
       ELSE ing_pc' = ing_pc /\ ing_i' = ing_i + 1
    /\ UNCHANGED <<arrived, queue, redis_up, broker_up, response, messages,
                   del_pc, item, conn, net_pc, appended, n_appended, n_passed,
                   calls, published, lost, pvars, app_seq, att_seq, del_err,
                   mvars>>

\* main.py:58: time.sleep(2), then the next cycle
Sleep ==
    /\ ing_pc = "sleep"
    /\ ing_pc' = "read"
    /\ response' = <<>>
    /\ messages' = <<>>
    /\ delete_calls' = {}
    /\ UNCHANGED <<modem, arrived, queue, redis_up, broker_up, faults,
                   serial_conn, ing_i, del_pc, item, conn, net_pc, deleted,
                   appended, n_appended, n_passed, calls, published, lost,
                   pvars, app_seq, att_seq, del_err, mvars, init_done>>

\* main.py:62: time.sleep(5), then the next cycle
Backoff ==
    /\ ing_pc = "backoff"
    /\ ing_pc' = "read"
    /\ response' = <<>>
    /\ messages' = <<>>
    /\ delete_calls' = {}
    /\ UNCHANGED <<modem, arrived, queue, redis_up, broker_up, faults,
                   serial_conn, ing_i, del_pc, item, conn, net_pc, deleted,
                   appended, n_appended, n_passed, calls, published, lost,
                   pvars, app_seq, att_seq, del_err, mvars, init_done>>

(***************************************************************************)
(* mqtt_publish_thread (src/main.py:65-87).                                *)
(***************************************************************************)
\* a loop that takes the oldest entry off the queue and drops it
Pop_drops_entry ==
    /\ del_pc = "pop"
    /\ redis_up
    /\ queue # <<>>
    /\ item' = <<>>
    /\ queue' = Tail(queue)
    /\ del_pc' = "pop"
    /\ UNCHANGED <<modem, arrived, redis_up, broker_up, faults, serial_conn,
                   ing_pc, response, messages, ing_i, delete_calls, conn,
                   net_pc, deleted, appended, n_appended, n_passed, calls,
                   published, lost, pvars, app_seq, att_seq, mvars,
                   init_done>>
    /\ del_err' = FALSE

\* a loop that takes the newest entry off the queue
Pop_takes_newest ==
    /\ del_pc = "pop"
    /\ redis_up
    /\ queue # <<>>
    /\ item' = <<queue[Len(queue)]>>
    /\ queue' = SubSeq(queue, 1, Len(queue) - 1)
    /\ del_pc' = "publish"
    /\ del_err' = FALSE
    /\ UNCHANGED <<modem, arrived, redis_up, broker_up, faults, serial_conn,
                   ing_pc, response, messages, ing_i, delete_calls, conn,
                   net_pc, deleted, appended, n_appended, n_passed, calls,
                   published, lost, pvars, app_seq, att_seq, mvars,
                   init_done>>

\* main.py:78-80: blpop returns the oldest entry
Pop ==
    /\ del_pc = "pop"
    /\ redis_up
    /\ queue # <<>>
    /\ item' = <<Head(queue)>>
    /\ queue' = Tail(queue)
    /\ del_pc' = "publish"
    /\ UNCHANGED <<modem, arrived, redis_up, broker_up, faults, serial_conn,
                   ing_pc, response, messages, ing_i, delete_calls, conn,
                   net_pc, deleted, appended, n_appended, n_passed, calls,
                   published, lost, pvars, app_seq, att_seq, mvars,
                   init_done>>
    /\ del_err' = FALSE

\* RedisClient.py:42-46 and main.py:79: the store does not answer, blpop
\* logs and returns None, the loop calls blpop again at once
PopFail ==
    /\ del_pc = "pop"
    /\ ~redis_up
    /\ del_err' = TRUE
    /\ UNCHANGED <<modem, arrived, queue, redis_up, broker_up, faults,
                   serial_conn, ing_pc, response, messages, ing_i,
                   delete_calls, del_pc, item, conn, net_pc, deleted,
                   appended, n_appended, n_passed, calls, published, lost,
                   app_seq, att_seq, pvars, mvars, init_done>>

\* main.py:81-82: the payload is decoded and published; what publish
\* returns is not looked at.  The entries are the ones read_sms_thread wrote
\* with json.dumps and publish catches its own exceptions, so nothing here
\* raises and the except of main.py:84-87 is not reached
Publish ==
    /\ del_pc = "publish"
    /\ del_pc' = "pop"
    /\ item' = <<>>
    /\ n_passed' = n_passed + 1
    /\ att_seq' = Append(att_seq, item[1])
    /\ UNCHANGED <<modem, arrived, queue, redis_up, broker_up, faults,
                   serial_conn, ing_pc, response, messages, ing_i,
                   delete_calls, conn, net_pc, deleted, appended, n_appended,
                   pvars, app_seq, del_err, mvars, init_done>>
    /\ \E message \in {json_loads(item[1])} :
       \E p \in {publish(message, conn)} :
          /\ calls' = calls \cup {[connected    |-> conn # "down",
                                   reconnecting |-> net_pc # "idle",
                                   sent         |-> p.sent,
                                   result       |-> p.result]}
          /\ published' =
                 IF p.sent
                 THEN published
                      \cup {[topic |-> p.topic, payload |-> p.payload]}
                 ELSE published
          /\ lost' = IF p.result THEN lost ELSE lost \cup {item[1]}

(***************************************************************************)
(* The client's network thread and on_disconnect                           *)
(* (src/MQTTPublisher.py:40-55).                                           *)
(***************************************************************************)
\* the network thread notices the dead link and calls on_disconnect
Disconnected ==
    /\ conn = "stale"
    /\ net_pc = "idle"
    /\ conn' = "down"
    /\ net_pc' = "reconnect"
    /\ UNCHANGED <<modem, arrived, queue, redis_up, broker_up, faults,
                   serial_conn, ing_pc, response, messages, ing_i,
                   delete_calls, del_pc, item, deleted, appended, n_appended,
                   n_passed, calls, published, lost, pvars, app_seq, att_seq,
                   del_err, mvars, init_done>>

\* MQTTPublisher.py:50-55: client.reconnect(), then break or the except
Reconnect ==
    /\ net_pc = "reconnect"
    /\ net_pc' = on_disconnect_step(net_pc, broker_up).pc
    /\ conn' = on_disconnect_step(net_pc, broker_up).conn
    /\ UNCHANGED <<modem, arrived, queue, redis_up, broker_up, faults,
                   serial_conn, ing_pc, response, messages, ing_i,
                   delete_calls, del_pc, item, deleted, appended, n_appended,
                   n_passed, calls, published, lost, pvars, app_seq, att_seq,
                   del_err, mvars, init_done>>

\* MQTTPublisher.py:55: time.sleep(5) is over
ReconnectWait ==
    /\ net_pc = "wait"
    /\ net_pc' = on_disconnect_step(net_pc, broker_up).pc
    /\ conn' = on_disconnect_step(net_pc, broker_up).conn
    /\ UNCHANGED <<modem, arrived, queue, redis_up, broker_up, faults,
                   serial_conn, ing_pc, response, messages, ing_i,
                   delete_calls, del_pc, item, deleted, appended, n_appended,
                   n_passed, calls, published, lost, pvars, app_seq, att_seq,
                   del_err, mvars, init_done>>

Ingestion ==
    ReadSms \/ ParseDelete \/ Enqueue \/ EnqueueFail \/ ThreadDelete
    \/ Sleep \/ Backoff

Delivery == Pop \/ PopFail \/ Publish

Network == Disconnected \/ Reconnect \/ ReconnectWait

Environment == Arrive \/ RedisDown \/ RedisUp \/ BrokerDown \/ BrokerUp

Next == Ingestion \/ Delivery \/ Network \/ Environment

Spec == Init /\ [][Next]_vars

\* both loops and the client's network thread are threads of their own
\* (main.py:142-159, MQTTPublisher.py:34): each keeps being scheduled.
\* Nothing is assumed of read_sms_thread, the modem, the store or the broker.
FairSpec ==
    /\ Spec
    /\ WF_vars(Pop)
    /\ WF_vars(Publish)
    /\ WF_vars(Disconnected)
    /\ WF_vars(Reconnect)
    /\ WF_vars(ReconnectWait)

(***************************************************************************)
(* StartSpec: main from its start to the start of the threads              *)
(* (src/main.py:126-161), with CheckModemPort (src/SMSReader.py:9-45).     *)
(* The variables of the threads hold the state the threads start from.     *)
(***************************************************************************)
\* how a listed serial port behaves when probed: it cannot be opened; it
\* answers AT with OK; it answers something else or nothing; it opens and
\* the write or the read raises SerialException
PortKinds == {"absent", "modem", "other", "io_error"}

\* SMSReader.py:32-45: what check_at_command returns for a port of a kind
\* and whether it leaves the port open.  ser.close() is line 38 only: after
\* an error of line 35 or 37 the code does not close, and the port is
\* closed or not as the interpreter finalizes the unreferenced object.
check_at_command(kind) ==
    IF kind = "modem" THEN {[success |-> TRUE, left_open |-> FALSE]}
    ELSE IF kind = "io_error"
    THEN {[success |-> FALSE, left_open |-> TRUE],
          [success |-> FALSE, left_open |-> FALSE]}
    ELSE {[success |-> FALSE, left_open |-> FALSE]}

StartInit ==
    /\ SysInit
    /\ p_pc = "out"
    /\ p_lines = <<>>
    /\ p_out = NoOutput
    /\ probe_i = 1
    /\ open_ports = {}
    /\ started = FALSE
    /\ \/ /\ main_pc = "probe"
          /\ ports \in UNION { [1..n -> PortKinds] : n \in 0..MaxPorts }
          /\ at_port = <<>>
       \/ /\ main_pc = "construct"
          /\ ports = <<>>
          /\ at_port = <<0>>

\* SMSReader.py:18-26: find_port probes the next port and stops at the first
\* that answers
Probe ==
    /\ main_pc = "probe"
    /\ probe_i <= Len(ports)
    /\ \E r \in check_at_command(ports[probe_i]) :
          /\ open_ports' = IF r.left_open THEN open_ports \cup {probe_i}
                           ELSE open_ports
          /\ at_port' = IF r.success THEN <<probe_i>> ELSE at_port
          /\ main_pc' = IF r.success THEN "construct" ELSE main_pc
          /\ probe_i' = IF r.success THEN probe_i ELSE probe_i + 1
    /\ UNCHANGED <<ports, started, sysvars, pvars>>

\* SMSReader.py:28-30 and main.py:131-132: no port answered; find_port logs
\* a warning and returns at_port, which is None, and main goes on
NoPortFound ==
    /\ main_pc = "probe"
    /\ probe_i > Len(ports)
    /\ main_pc' = "construct"
    /\ UNCHANGED <<ports, probe_i, open_ports, at_port, started, sysvars,
                   pvars>>

\* main.py:138-139: SMSReader(serial_port, baudrate) opens nothing;
\* MQTTPublisher connects, or raises and main ends through its finally
Construct ==
    /\ main_pc = "construct"
    /\ \E connected \in BOOLEAN :
          main_pc' = IF connected THEN "start" ELSE "exited"
    /\ UNCHANGED <<ports, probe_i, open_ports, at_port, started, sysvars,
                   pvars>>

\* main.py:142-161: both threads are started
StartThreads ==
    /\ main_pc = "start"
    /\ started' = TRUE
    /\ main_pc' = "running"
    /\ UNCHANGED <<ports, probe_i, open_ports, at_port, sysvars, pvars>>

StartNext == Probe \/ NoPortFound \/ Construct \/ StartThreads

StartSpec == StartInit /\ [][StartNext]_vars

(***************************************************************************)
(* ShutdownSpec: the threads, and main from its wait loop through the      *)
(* cleanup to the end of the process (src/main.py:163-177).  The threads   *)
(* are daemon threads that main does not stop or join: they run until the  *)
(* process has ended.                                                      *)
(***************************************************************************)
\* main.py:164-170: KeyboardInterrupt (or an exception) ends the wait loop
Interrupt ==
    /\ main_pc = "running"
    /\ main_pc' = "cleanup"
    /\ UNCHANGED <<ports, probe_i, open_ports, at_port, started, sysvars,
                   pvars>>

\* main.py:173-174 and SMSReader.py:215: close() tests _serial_conn
CloseTest ==
    /\ main_pc = "cleanup"
    /\ main_pc' = IF serial_conn = "open" THEN "closing" ELSE "reader_closed"
    /\ UNCHANGED <<ports, probe_i, open_ports, at_port, started, sysvars,
                   pvars>>

\* SMSReader.py:216: self._serial_conn.close(); when the thread has set
\* _serial_conn to None since the test, the call raises and main ends
\* without closing the publisher
CloseSerial ==
    /\ main_pc = "closing"
    /\ serial_conn' = IF serial_conn = "None" THEN "None" ELSE "closed"
    /\ init_done' = FALSE
    /\ main_pc' = IF serial_conn = "None" THEN "exited" ELSE "reader_closed"
    /\ UNCHANGED <<modem, arrived, queue, redis_up, broker_up, faults, ing_pc,
                   response, messages, ing_i, delete_calls, del_pc, item,
                   conn, net_pc, deleted, appended, n_appended, n_passed,
                   calls, published, lost, app_seq, att_seq, del_err, pvars,
                   ports, probe_i, open_ports, at_port, started>>

\* main.py:175-176 and MQTTPublisher.py:78-83: loop_stop() joins the network
\* thread, which returns from on_disconnect only reconnected; disconnect()
ClosePublisher ==
    /\ main_pc = "reader_closed"
    /\ net_pc = "idle"
    /\ conn' = "down"
    /\ main_pc' = "stopped"
    /\ UNCHANGED <<modem, arrived, queue, redis_up, broker_up, faults,
                   serial_conn, ing_pc, response, messages, ing_i,
                   delete_calls, del_pc, item, net_pc, deleted, appended,
                   n_appended, n_passed, calls, published, lost, app_seq,
                   att_seq, del_err, pvars, ports, probe_i, open_ports,
                   at_port, started, init_done>>

\* main.py:177: main returns and the process ends, the threads with it
Exit ==
    /\ main_pc = "stopped"
    /\ main_pc' = "exited"
    /\ UNCHANGED <<ports, probe_i, open_ports, at_port, started, sysvars,
                   pvars>>

Threads == main_pc # "exited" /\ Next

Main == Interrupt \/ CloseTest \/ CloseSerial \/ ClosePublisher \/ Exit

ShutdownNext == Threads \/ Main

ShutdownSpec == Init /\ [][ShutdownNext]_vars

(***************************************************************************)
(* Claims about the two loops and the publisher (Spec, FairSpec).          *)
(***************************************************************************)
\* the body of the message parsed from a stored record (SMSReader.py:172)
MessageBody(body) == body \o <<"\n">>

\* C1: a record is deleted from the modem only after it has been accepted
\* into the relay queue: no record has been removed by AT+CMGD while no
\* message with its body was ever appended to the queue.
C1_DeleteOnlyAfterAppend ==
    \A b \in deleted : MessageBody(b) \in appended

\* C2: a broker outage never loses a message: no popped message is
\* discarded after a publish that returned failure.
C2_NoPoppedMessageDiscarded == lost = {}

\* the most entries a run appends to the queue
MaxAppended == MaxArrivals + MaxFaults

\* C3: with the queue store available from some point on, every entry in
\* the relay queue (the n-th appended, for every n) is eventually popped and
\* passed to publish, whatever read_sms_thread does or fails to do.
C3_QueuedEntriesDelivered ==
    (<>[]redis_up)
        => \A n \in 1..MaxAppended :
              [](n_appended >= n => <>(n_passed >= n))

C3_Witness ==
    /\ n_passed >= 1
    /\ ing_pc \in {"thread_delete", "backoff"}
    /\ serial_conn = "None"
    /\ faults > 0

C5_PublishFailsExplicitly ==
    /\ \A c \in calls : c.result => (c.sent /\ c.connected)
    /\ \A c \in calls : c.reconnecting => ~c.result

C5_Witness ==
    \E c \in calls : c.reconnecting /\ ~c.result /\ ~c.sent

\* C6: on_disconnect leaves its loop only reconnected, waits after each
\* failed attempt and attempts again after each wait; if the broker comes
\* back and stays, the publisher ends up connected for good.
C6_ReconnectUntilConnected ==
    /\ [][(net_pc # "idle" /\ net_pc' = "idle") => conn' = "up"]_vars
    /\ [][(net_pc = "reconnect" /\ net_pc' # "reconnect")
            => (net_pc' = "wait" \/ conn' = "up")]_vars
    /\ [][(net_pc = "wait" /\ net_pc' # "wait")
            => net_pc' = "reconnect"]_vars
    /\ [](net_pc = "wait" => <>(net_pc = "reconnect"))
    /\ (<>[]broker_up) => <>[](conn = "up")

C6_Witness == net_pc = "wait" /\ broker_up /\ conn = "down"

\* the modem holding one record, index 3, body Hello, and its list reply
C10Store(date) ==
    [i \in SlotSet |->
        IF i = 3 THEN <<[date |-> date, body |-> STR_HELLO]>> ELSE <<>>]

C10Message ==
    [index     |-> <<"3">>,
     status    |-> REC_UNREAD,
     sender    |-> STR_SENDER,
     timestamp |-> 1705314600,
     body      |-> <<"H", "e", "l", "l", "o", "\n">>]

C10Topic ==
    <<"m", "o", "d", "e", "m", "/", "1", "5", "5", "5", "0", "0", "0", "1",
      "2", "3", "4", "/", "1", "7", "0", "5", "3", "1", "4", "6", "0", "0">>

\* the JSON text of "Hello\n"
C10Payload == <<"\"", "H", "e", "l", "l", "o", "\\", "n", "\"">>

\* what the scenario says of a cycle whose list reply is `reply`
C10Scenario(reply) ==
    /\ response = reply => messages = <<C10Message>>
    /\ (response = reply /\ ing_pc \notin {"read", "parse_delete"})
          => <<"3">> \in delete_calls
    /\ (del_pc = "publish" /\ json_loads(item[1]).body = C10Message.body)
          => /\ publish(json_loads(item[1]), conn).topic = C10Topic
             /\ publish(json_loads(item[1]), conn).payload = C10Payload

ParseLineSet ==
    { HeaderLine(1, REC_UNREAD, DateStd),
      HeaderLine(2, STR_READ, DateStd),
      HeaderLine(3, REC_UNREAD, DateSplit),
      ShortHeader(4),
      HeaderLine(5, REC_UNREAD, DateBad),
      HeaderLine(6, REC_UNREAD, DateAbsent),
      STR_HELLO,
      STR_BYE,
      STR_OK }

Payloads == UNION { [1..n -> ParseLineSet] : n \in 0..MaxLines }

ParseInit ==
    /\ SysInit
    /\ MainRunning
    /\ p_pc = "in"
    /\ p_lines \in Payloads
    /\ p_out = NoOutput

Parse ==
    /\ p_pc = "in"
    /\ p_pc' = "out"
    /\ p_out' = parse_sms_message(p_lines)
    /\ UNCHANGED <<p_lines, sysvars, mvars>>

ParseNext == Parse

ParseSpec == ParseInit /\ [][ParseNext]_vars

(***************************************************************************)
(* Claims about the parser (ParseSpec).                                    *)
(***************************************************************************)
IsHeader(l) == startswith(strip(l), STR_CMGL)

IsTerminator(l) ==
    startswith(strip(l), STR_OK) \/ startswith(strip(l), STR_ERROR)

IsShortHeader(l) == IsHeader(l) /\ Len(split(strip(l), ",")) < 6

\* the well-formed headers: index, a status, the sender, the date and time
GoodHeaders ==
    { [line   |-> HeaderLine(i, s, DateStd),
       index  |-> <<DigitChars[i + 1]>>,
       status |-> s] : i \in 0..9, s \in {REC_UNREAD, STR_READ} }

GoodHeaderOf(l) == CHOOSE h \in GoodHeaders : h.line = l

\* a payload of records (a well-formed header, then its body lines), with
\* at most a terminator after them
WellFormedPayload(lines) ==
    /\ lines # <<>>
    /\ IsHeader(lines[1])
    /\ \A k \in 1..Len(lines) :
          /\ IsHeader(lines[k]) => \E h \in GoodHeaders : h.line = lines[k]
          /\ IsTerminator(lines[k]) => k = Len(lines)

\* the body of the record whose lines start at k: up to the next header
RECURSIVE BodyFrom(_, _)
BodyFrom(lines, k) ==
    IF k > Len(lines) \/ IsHeader(lines[k]) THEN <<>>
    ELSE (IF IsTerminator(lines[k]) THEN <<>> ELSE lines[k] \o <<"\n">>)
         \o BodyFrom(lines, k + 1)

\* index and body of the records that are unread and have a body, in order
UnreadRecords(lines) ==
    LET at == SelectSeq([k \in 1..Len(lines) |-> k],
                        LAMBDA k : /\ IsHeader(lines[k])
                                   /\ GoodHeaderOf(lines[k]).status = REC_UNREAD
                                   /\ BodyFrom(lines, k + 1) # <<>>)
    IN  [i \in 1..Len(at) |->
            [index |-> GoodHeaderOf(lines[at[i]]).index,
             body  |-> BodyFrom(lines, at[i] + 1)]]

IndexAndBody(msgs) ==
    [i \in 1..Len(msgs) |->
        [index |-> msgs[i].index, body |-> msgs[i].body]]

\* C7: for every well-formed payload, _parse_sms_message returns exactly one
\* message per header whose status is "REC UNREAD" and whose body is
\* non-empty, in order, and none for a header of any other status, whether
\* that record is the last one or is followed by another header.
C7_OnePerUnreadHeader ==
    (p_pc = "out" /\ WellFormedPayload(p_lines))
        => IndexAndBody(p_out.messages) = UnreadRecords(p_lines)

\* the payload without its short-header records: each short header and the
\* lines after it, up to the next header, removed
RECURSIVE DropShortRecords(_, _)
DropShortRecords(lines, dropping) ==
    IF lines = <<>> THEN <<>>
    ELSE IF IsShortHeader(Head(lines))
    THEN DropShortRecords(Tail(lines), TRUE)
    ELSE IF IsHeader(Head(lines))
    THEN <<Head(lines)>> \o DropShortRecords(Tail(lines), FALSE)
    ELSE IF dropping THEN DropShortRecords(Tail(lines), TRUE)
    ELSE <<Head(lines)>> \o DropShortRecords(Tail(lines), FALSE)

\* every header that is not short is a well-formed header of an unread record
OtherHeadersUnread(lines) ==
    \A k \in 1..Len(lines) :
        (IsHeader(lines[k]) /\ ~IsShortHeader(lines[k]))
            => \E h \in GoodHeaders :
                  h.line = lines[k] /\ h.status = REC_UNREAD

\* C8: a header with fewer than 6 comma-separated parts discards its record
\* without disturbing the rest: the messages returned (bodies, number of
\* occurrences, order) are those returned for the payload without the short
\* record and its body lines.
C8_ShortHeaderDiscarded ==
    (p_pc = "out" /\ OtherHeadersUnread(p_lines))
        => p_out.messages
             = parse_sms_message(DropShortRecords(p_lines, FALSE)).messages

\* the headers whose date/time is malformed or absent
BadDateHeaders ==
    { [line |-> HeaderLine(5, REC_UNREAD, DateBad), index |-> <<"5">>],
      [line |-> HeaderLine(6, REC_UNREAD, DateAbsent), index |-> <<"6">>] }

\* C9: an unread record whose header has an absent or malformed date/time
\* and which has a body still yields a message, with timestamp 0.
C9_BadDateYieldsEpoch ==
    p_pc = "out"
        => \A k \in 1..Len(p_lines) : \A h \in BadDateHeaders :
              (p_lines[k] = h.line /\ BodyFrom(p_lines, k + 1) # <<>>)
                  => \E i \in 1..Len(p_out.messages) :
                        /\ p_out.messages[i].index = h.index
                        /\ p_out.messages[i].timestamp = 0

\* no header line occurs twice in the payload: each header is one record
DistinctHeaders(lines) ==
    \A j, k \in 1..Len(lines) :
        (IsHeader(lines[j]) /\ lines[j] = lines[k]) => j = k

\* C11: the list read_sms returns (and with it the batch of the cycle) holds
\* each modem record at most once, for every payload, with short or
\* malformed headers too: no two of its entries have the same index.
C11_NoRecordTwice ==
    (p_pc = "out" /\ DistinctHeaders(p_lines))
        => \A i, j \in 1..Len(p_out.messages) :
              p_out.messages[i].index = p_out.messages[j].index => i = j

\* the payload ends with the success token
EndsWithOk(lines) == lines # <<>> /\ strip(lines[Len(lines)]) = STR_OK

\* C14 (reply read without its terminating OK): read_sms returns the empty
\* list and issues no delete for a reply that did not arrive complete.
C14_NothingWithoutOk ==
    (p_pc = "out" /\ ~EndsWithOk(p_lines))
        => (p_out.messages = <<>> /\ p_out.deletes = <<>>)

C13_EmptyCycleTouchesNothing ==
    /\ [][(ing_pc = "read" /\ ing_pc' # "read" /\ messages' = <<>>)
            => /\ ing_pc' = "sleep"
               /\ queue' = queue
               /\ n_appended' = n_appended
               /\ modem' = modem
               /\ delete_calls' = {}]_vars
    /\ [][(ing_pc = "sleep" /\ ing_pc' # "sleep")
            => /\ ing_pc' = "read"
               /\ queue' = queue
               /\ n_appended' = n_appended
               /\ modem' = modem
               /\ delete_calls' = {}]_vars

\* a reply without records was read while the queue holds an entry
C13_Witness ==
    /\ ing_pc = "sleep"
    /\ messages = <<>>
    /\ response # <<>>
    /\ queue # <<>>

(***************************************************************************)
(* Claims about the order of delivery and the loops' failures (Spec).      *)
(***************************************************************************)
\* the batch of a cycle: its messages serialized, in the order parsed
Batch(msgs) == [i \in 1..Len(msgs) |-> json_dumps(msgs[i])]

\* C19: the payloads ever appended are, in the order appended, those passed
\* to publish, then the one popped, then the queue (so publishes are
\* attempted in the order of the appends); and the queue grows only by a
\* whole batch at its end, in the order the messages were parsed.
C19_OrderPreserved ==
    /\ [](app_seq = att_seq \o item \o queue)
    /\ [][app_seq' # app_seq
            => /\ ing_pc = "enqueue"
               /\ queue' = queue \o Batch(messages)
               /\ app_seq' = app_seq \o Batch(messages)]_vars
    /\ [][att_seq' # att_seq
            => att_seq' = Append(att_seq, app_seq[Len(att_seq) + 1])]_vars

\* two messages went in one batch and both were passed to publish
C19_Witness ==
    /\ Len(att_seq) = 2
    /\ Len(messages) = 2
    /\ att_seq = Batch(messages)

\* C18 (the delivery loop and a queue-store error): after an iteration of
\* mqtt_publish_thread that failed on the queue store the loop is in its
\* backoff sleep.
C18_BackoffAfterFailure == del_err => del_pc = "backoff"

(***************************************************************************)
(* Claims about startup (StartSpec) and shutdown (ShutdownSpec).           *)
(***************************************************************************)
\* C15: when auto-discovery finds no port that answers, startup is aborted:
\* the threads are started only with a serial port.
C15_NoPortNoThreads == started => at_port # <<>>

\* C16: no port that check_at_command opened is open once it has returned.
C16_NoPortLeftOpen == open_ports = {}

\* C17: once main's cleanup has run, the serial connection is closed and the
\* bus connection is disconnected.
C17_ReleasedAfterCleanup ==
    main_pc = "stopped" => (serial_conn # "open" /\ conn = "down")

\* C20: main is never inside sms_reader.close(), about to close the
\* connection, while read_sms is under way on the ingestion thread.
C20_SerialNotShared == ~(main_pc = "closing" /\ ing_pc = "parse_delete")

(***************************************************************************)
(* Claims about the deletes of a cycle, the session and the pop (Spec).    *)
(***************************************************************************)
\* C21: a delete command only ever removes a record that is in the list of
\* this cycle: every body that a step removes from the modem is the body of
\* one of the messages read_sms returned in the cycle under way.
C21_DeleteOnlyListed ==
    [][\A b \in deleted' \ deleted :
          \E i \in 1..Len(messages) : messages[i].body = MessageBody(b)]_vars

\* C24: a pop that fails on the queue store is not followed at once by
\* another pop: the step in which blpop fails takes the delivery loop away
\* from the blpop, to its backoff sleep.
C24_NoPopRightAfterFailedPop ==
    [][(~del_err /\ del_err') => del_pc' # "pop"]_vars

\* C22: a serial command that ends in an I/O error leaves the session
\* Disconnected: the connection closed and _serial_conn cleared.
C22_ErrorLeavesDisconnected ==
    [][faults' > faults => (serial_conn' = "None" /\ ~init_done')]_vars

\* C23: no list or delete command is written to a connection on which
\* AT+CMGF=1 was not completed: a step of the ingestion thread that sends a
\* command on the connection it finds open finds it initialized.
C23_CommandsOnInitializedOnly ==
    [][(/\ serial_conn = "open"
        /\ ing_pc \in {"read", "parse_delete", "thread_delete"}
        /\ <<ing_pc, ing_i>>' # <<ing_pc, ing_i>>)
          => init_done]_vars

====
